---- MODULE Spec2Model ----
(***************************************************************************)
(* Branch-and-bound driver of ddo (BBSolver::maximize) over a decision     *)
(* diagram interface (trait MDD).  The driver is translated from           *)
(* src/src/core/implementation/bb_solver.rs.  The MDD compiler itself is   *)
(* only declared (src/src/core/abstraction/mdd.rs); its behaviour is       *)
(* modelled from the specification as every outcome a sound compiler may   *)
(* produce on a small family of 0/1 problems.                              *)
(***************************************************************************)
EXTENDS FiniteSets, Integers, Sequences, TLC

\* ------------------------------------------------------------------------
\* Bounds of the model
\* ------------------------------------------------------------------------
NVars == 2
MaxSlack == 1

\* ------------------------------------------------------------------------
\* Program constants
\* ------------------------------------------------------------------------
I32_MAX == 2147483647
I32_MIN == -2147483647 - 1

\* ------------------------------------------------------------------------
\* Problem instances: NVars 0/1 variables, variable i yields val[i] and
\* weighs wt[i] when set to 1, total weight at most cap (cap < 0: the
\* problem has no feasible decision sequence).
\* ------------------------------------------------------------------------
Values == {-1, 2}
Weights == {1}
Caps == {-1, 1, NVars}

Problems ==
  [n : {NVars}, val : [1..NVars -> Values], wt : [1..NVars -> Weights], cap : Caps]

RECURSIVE SumTaken(_, _, _)
SumTaken(coef, q, i) ==
  IF i = 0 THEN 0
  ELSE SumTaken(coef, q, i - 1) + (IF q[i] = 1 THEN coef[i] ELSE 0)

\* total reward of the decisions of q (a prefix or a complete sequence)
Value(p, q) == SumTaken(p.val, q, Len(q))
Weight(p, q) == SumTaken(p.wt, q, Len(q))
Feasible(p, q) == Weight(p, q) <= p.cap

\* sequences of d decisions that extend the partial assignment s
Ext(s, d) == {q \in [1..d -> {0, 1}] : \A i \in 1..Len(s) : q[i] = s[i]}
Completions(p, s) == {q \in Ext(s, p.n) : Feasible(p, q)}

SetMax(S) == CHOOSE x \in S : \A y \in S : y <= x
Min(a, b) == IF a < b THEN a ELSE b

\* optimum of the subproblem rooted at the partial assignment s
Opt(p, s) ==
  IF Completions(p, s) = {} THEN I32_MIN
  ELSE SetMax({Value(p, q) : q \in Completions(p, s)})

\* ------------------------------------------------------------------------
\* Nodes.  state is the partial assignment that leads to the node (it
\* stands for the problem state and the lp_arc chain), info is lp_len, ub.
\* An Option<X> is the empty set (None) or a singleton (Some).
\* ------------------------------------------------------------------------
MkNode(s, lp, u) == [state |-> s, lp_len |-> lp, ub |-> u]

\* LoadVars::variables: the free variables of a node
Variables(p, nd) == (Len(nd.state) + 1)..p.n

\* NodeInfo::longest_path
LongestPath(bn) == bn.path

\* ------------------------------------------------------------------------
\* MDD (trait MDD): the result of the last compilation
\* ------------------------------------------------------------------------
NoMdd ==
  [kind |-> "none", is_exact |-> FALSE, best_value |-> I32_MIN,
   best_node |-> {}, cutset |-> {}]

\* the compilation found the complete sequence q
Found(k, ex, q, v) ==
  [kind |-> k, is_exact |-> ex, best_value |-> v,
   best_node |-> {[lp_len |-> v, path |-> q]}, cutset |-> {}]

\* the compilation kept no terminal node
Empty(k, ex) ==
  [kind |-> k, is_exact |-> ex, best_value |-> I32_MIN,
   best_node |-> {}, cutset |-> {}]

\* outcomes of an exact diagram compiled from nd with pruning threshold lb
ExactOutcomes(p, k, nd, lb) ==
  LET C == Completions(p, nd.state)
      O == Opt(p, nd.state)
  IN  {Found(k, TRUE, q, O) : q \in {c \in C : Value(p, c) = O}}
        \cup (IF C = {} \/ O <= lb THEN {Empty(k, TRUE)} ELSE {})

\* MDD::restricted: a feasible path of the subproblem, exact or not
Restricted(p, nd, lb) ==
  LET C == Completions(p, nd.state)
      O == Opt(p, nd.state)
  IN  ExactOutcomes(p, "restricted", nd, lb)
        \cup (IF Variables(p, nd) = {} THEN {}
              ELSE {Found("restricted", FALSE, q, Value(p, q)) : q \in C}
                     \cup (IF C # {} /\ O <= lb
                           THEN {Empty("restricted", FALSE)} ELSE {}))

\* cutset of a relaxed diagram: the feasible nodes of layer d below nd,
\* ub inherited from the parent and from an estimate at most sl above the
\* optimum of the child
CutsetNodes(p, nd, d, sl) ==
  {MkNode(s, Value(p, s), Min(nd.ub, Opt(p, s) + sl[s])) :
     s \in {x \in Ext(nd.state, d) : Feasible(p, x)}}

CutsetLayers(p, nd) == (Len(nd.state) + 1)..p.n

\* MDD::relaxed: exact, or an upper bound on the subproblem and a cutset
Relaxed(p, nd, lb) ==
  LET C == Completions(p, nd.state)
      O == Opt(p, nd.state)
      ones == [i \in 1..p.n |-> IF i <= Len(nd.state) THEN nd.state[i] ELSE 1]
  IN  ExactOutcomes(p, "relaxed", nd, lb)
        \cup (IF C = {} THEN {}
              ELSE UNION {
                     UNION {
                       {[kind |-> "relaxed", is_exact |-> FALSE,
                         best_value |-> O + r,
                         best_node |-> {[lp_len |-> O + r, path |-> ones]},
                         cutset |-> CutsetNodes(p, nd, d, sl)] :
                          sl \in [{x \in Ext(nd.state, d) : Feasible(p, x)}
                                    -> 0..MaxSlack]}
                       : r \in 0..MaxSlack}
                     : d \in CutsetLayers(p, nd)})

\* MDD::root
RootUbs(p) ==
  {I32_MAX} \cup (IF Completions(p, <<>>) = {} THEN {}
                  ELSE Opt(p, <<>>)..(Opt(p, <<>>) + MaxSlack))
Roots(p) == {MkNode(<<>>, 0, u) : u \in RootUbs(p)}

\* ------------------------------------------------------------------------
\* Fringe: BinaryHeap<Node<T>, BO>, pop returns a greatest node under BO
\* ------------------------------------------------------------------------
Comparators == {"MaxUb", "MinUb"}

\* a is strictly greater than b under the comparator
Greater(c, a, b) ==
  IF c = "MaxUb"
  THEN a.ub > b.ub \/ (a.ub = b.ub /\ a.lp_len > b.lp_len)
  ELSE a.ub < b.ub

\* variant: the heap returns a least node
Top_Least(c, f) == {a \in f : \A b \in f : ~Greater(c, a, b)}
Top(c, f) == {a \in f : \A b \in f : ~Greater(c, b, a)}
Push(f, nd) == f \cup {nd}
\* variant: the node is read but stays in the heap
PopFringe_Peek(f, nd) == f
PopFringe(f, nd) == f \ {nd}

\* ------------------------------------------------------------------------
\* Tests and updates of BBSolver::maximize
\* ------------------------------------------------------------------------
\* variants: best_ub is never lowered, or the comparison is reversed
TightenUb_Keep(ub, nodeub) == ub
TightenUb_Reversed(ub, nodeub) == IF nodeub > ub THEN nodeub ELSE ub
TightenUb(ub, nodeub) == IF nodeub < ub THEN nodeub ELSE ub
\* variants of the optimality test: off by one, strict, absent
ProvedOptimal_Early(lb, ub) == lb + 1 >= ub
ProvedOptimal_Strict(lb, ub) == lb > ub
ProvedOptimal_Never(lb, ub) == FALSE
ProvedOptimal(lb, ub) == lb >= ub
SkipNode(nodeub, lb) == nodeub < lb
\* variants of the improvement test: unconditional, non-strict
Improves_Always(value, lb) == TRUE
Improves_OrEqual(value, lb) == value >= lb
Improves(value, lb) == value > lb
\* variant: the relaxation is compiled even after an exact restriction
RestrictedIsSolved_Never(m) == FALSE
\* if self.mdd.is_exact() { continue; }
RestrictedIsSolved(m) == m.is_exact
\* variant: the relaxed value is used whether exact or not
RelaxedIsSolved_Always(m) == TRUE
RelaxedIsSolved(m) == m.is_exact
CapUb(ub, nodeub) == Min(ub, nodeub)
\* variants: a margin of one, non-strict filter
KeepCutsetNode_Margin(nodeub, lb) == nodeub > lb + 1
KeepCutsetNode_OrEqual(nodeub, lb) == nodeub >= lb
KeepCutsetNode(nodeub, lb) == nodeub > lb
\* variant: the solution is never reconstructed
BestSol_None(bn) == {}
BestSol(bn) == {LongestPath(x) : x \in bn}
Result(lb, sol) == <<lb, sol>>

\* ------------------------------------------------------------------------
\* McpRelax (examples/mcp/relax.rs): merge of a list of nodes.  A node is
\* [state |-> [initial, benef], is_exact, lp_len, lp_arc, ub]; benef[v] is
\* the benefit of variable v, lp_arc identifies the incoming arc.
\* ------------------------------------------------------------------------
McpVars == 1
MaxNodes == 2
Benefs == {-2, -1, 0, 1, 2}
LpLens == {0, 1}
UbGaps == {0, 1}

POSITIVE == 1
NEGATIVE == 2

Abs(x) == IF x < 0 THEN -x ELSE x
\* u8 bitwise or on the two sign bits
BitOr(a, b) ==
  (IF a % 2 = 1 \/ b % 2 = 1 THEN 1 ELSE 0)
    + (IF a \div 2 = 1 \/ b \div 2 = 1 THEN 2 ELSE 0)

McpNodeChoices ==
  {[state |-> [initial |-> FALSE, benef |-> b], is_exact |-> e,
    lp_len |-> l, lp_arc |-> 0, ub |-> l + g] :
     b \in [1..McpVars -> Benefs], e \in BOOLEAN, l \in LpLens, g \in UbGaps}

\* a list of nodes handed to merge_nodes; node i comes by arc i
McpInput(f) == [i \in DOMAIN f |-> [f[i] EXCEPT !.lp_arc = i]]

\* "short circuit" of substate_signs
ShortCircuit(signs) == signs > 0

RECURSIVE SignsFrom(_, _, _, _)
SignsFrom(v, ns, i, signs) ==
  IF i > Len(ns) THEN signs
  ELSE LET substate == ns[i].state.benef[v]
           s2 == IF substate < 0 THEN BitOr(signs, NEGATIVE)
                 ELSE IF substate > 0 THEN BitOr(signs, POSITIVE)
                 ELSE signs
       IN  IF ShortCircuit(s2) THEN s2 ELSE SignsFrom(v, ns, i + 1, s2)

substate_signs(v, ns) == SignsFrom(v, ns, 1, 0)

SetMin(S) == CHOOSE x \in S : \A y \in S : x <= y
minimum_substate(v, ns) ==
  SetMin({ns[i].state.benef[v] : i \in 1..Len(ns)})
minimum_abs_value_of_substate(v, ns) ==
  SetMin({Abs(ns[i].state.benef[v]) : i \in 1..Len(ns)})
difference_of_abs_benefit(l, u, m) == Abs(u.benef[l]) - Abs(m.benef[l])

merge_substates(v, ns) ==
  LET sg == substate_signs(v, ns) IN
  IF sg = POSITIVE THEN minimum_substate(v, ns)
  ELSE IF sg = NEGATIVE THEN -minimum_abs_value_of_substate(v, ns)
  ELSE 0

merge_states(ns) ==
  [initial |-> FALSE, benef |-> [v \in 1..McpVars |-> merge_substates(v, ns)]]

RECURSIVE SumDifference(_, _, _)
SumDifference(v, u, m) ==
  IF v = 0 THEN 0
  ELSE SumDifference(v - 1, u, m) + difference_of_abs_benefit(v, u, m)

\* relaxed_costs of relax_cost
RelaxedCosts(ns, m) ==
  [j \in 1..Len(ns) |-> ns[j].lp_len + SumDifference(McpVars, ns[j].state, m)]

\* variant: a later node of equal cost replaces the best one
Longer_OrEqual(cost, longest) == cost >= longest
\* if cost > longest
Longer(cost, longest) == cost > longest

RECURSIVE BestFrom(_, _, _)
BestFrom(costs, j, best) ==
  IF j > Len(costs) THEN best
  ELSE BestFrom(costs, j + 1, IF Longer(costs[j], costs[best]) THEN j ELSE best)

\* <<longest, index of the node it comes from>>
relax_cost(ns, m) ==
  LET costs == RelaxedCosts(ns, m)
      best == BestFrom(costs, 1, 1)
  IN  <<costs[best], best>>

merge_nodes(ns) ==
  LET relaxed_state == merge_states(ns)
      rc == relax_cost(ns, relaxed_state)
      via_node == ns[rc[2]]
  IN  [state |-> relaxed_state, is_exact |-> FALSE, lp_len |-> rc[1],
       lp_arc |-> via_node.lp_arc, ub |-> via_node.ub]

VARIABLES pb, bo, pc, fringe, node, explored, best_ub, best_lb, best_node,
          best_sol, mdd, result, nodes, merged

vars == <<pb, bo, pc, fringe, node, explored, best_ub, best_lb, best_node,
          best_sol, mdd, result, nodes, merged>>

Optimum == Opt(pb, <<>>)

\* BBSolver::new
Init ==
  /\ pb \in Problems
  /\ bo \in Comparators
  /\ pc = "start"
  /\ fringe = {}
  /\ node = {}
  /\ explored = 0
  /\ best_ub = I32_MAX
  /\ best_lb = I32_MIN
  /\ best_node = {}
  /\ best_sol = {}
  /\ mdd = NoMdd
  /\ result = <<>>
  /\ nodes = <<>>
  /\ merged = {}

\* let root = self.mdd.root(); self.fringe.push(root);
Start ==
  /\ pc = "start"
  /\ \E r \in Roots(pb) : fringe' = Push(fringe, r)
  /\ pc' = "loop"
  /\ UNCHANGED <<pb, bo, nodes, merged, node, explored, best_ub, best_lb, best_node,
                 best_sol, mdd, result>>

\* while !self.fringe.is_empty() fails
LoopExit ==
  /\ pc = "loop"
  /\ fringe = {}
  /\ pc' = "finish"
  /\ UNCHANGED <<pb, bo, nodes, merged, fringe, node, explored, best_ub, best_lb,
                 best_node, best_sol, mdd, result>>

\* pop, tighten best_ub, then break, skip or start exploring the node
Pop ==
  /\ pc = "loop"
  /\ fringe # {}
  /\ \E nd \in Top(bo, fringe) :
       LET ub == TightenUb(best_ub, nd.ub) IN
       /\ fringe' = PopFringe(fringe, nd)
       /\ node' = {nd}
       /\ best_ub' = ub
       /\ pc' = IF ProvedOptimal(best_lb, ub) THEN "finish"
                ELSE IF SkipNode(nd.ub, best_lb) THEN "loop"
                ELSE "restrict"
       /\ explored' = IF ~ProvedOptimal(best_lb, ub) /\ ~SkipNode(nd.ub, best_lb)
                      THEN explored + 1 ELSE explored
  /\ UNCHANGED <<pb, bo, nodes, merged, best_lb, best_node, best_sol, mdd, result>>

\* 1. RESTRICTION
Restrict ==
  /\ pc = "restrict"
  /\ \E nd \in node : \E m \in Restricted(pb, nd, best_lb) :
       /\ mdd' = m
       /\ IF Improves(m.best_value, best_lb)
          THEN best_lb' = m.best_value /\ best_node' = m.best_node
          ELSE UNCHANGED <<best_lb, best_node>>
       /\ pc' = IF RestrictedIsSolved(m) THEN "loop" ELSE "relax"
  /\ UNCHANGED <<pb, bo, nodes, merged, fringe, node, explored, best_ub, best_sol, result>>

\* 2. RELAXATION: self.mdd.relaxed(vars, &node, self.best_lb)
Relax ==
  /\ pc = "relax"
  /\ \E nd \in node : mdd' \in Relaxed(pb, nd, best_lb)
  /\ pc' = "split"
  /\ UNCHANGED <<pb, bo, nodes, merged, fringe, node, explored, best_ub, best_lb,
                 best_node, best_sol, result>>

\* the relaxed diagram is exact (update) or its cutset is consumed
Split ==
  /\ pc = "split"
  /\ IF RelaxedIsSolved(mdd)
     THEN /\ IF Improves(mdd.best_value, best_lb)
             THEN best_lb' = mdd.best_value /\ best_node' = mdd.best_node
             ELSE UNCHANGED <<best_lb, best_node>>
          /\ UNCHANGED <<fringe, mdd>>
     ELSE /\ fringe' = fringe \cup
               {MkNode(c.state, c.lp_len, CapUb(best_ub, c.ub)) :
                  c \in {x \in mdd.cutset :
                           KeepCutsetNode(CapUb(best_ub, x.ub), best_lb)}}
          /\ mdd' = [mdd EXCEPT !.cutset = {}]
          /\ UNCHANGED <<best_lb, best_node>>
  /\ pc' = "loop"
  /\ UNCHANGED <<pb, bo, nodes, merged, node, explored, best_ub, best_sol, result>>

\* after the loop: best_sol and the returned pair
Finish ==
  /\ pc = "finish"
  /\ best_sol' = BestSol(best_node)
  /\ result' = Result(best_lb, BestSol(best_node))
  /\ pc' = "done"
  /\ UNCHANGED <<pb, bo, nodes, merged, fringe, node, explored, best_ub, best_lb,
                 best_node, mdd>>

Next == Start \/ LoopExit \/ Pop \/ Restrict \/ Relax \/ Split \/ Finish

Spec == Init /\ [][Next]_vars


\* the conventional fringe order (ub first), the one the driver's comment
\* assumes: "Nodes are sorted on UB as first criterion"
InitMaxUb == Init /\ bo = "MaxUb"
SpecMaxUb == InitMaxUb /\ [][Next]_vars

\* The end-to-end scenarios: one variable with rewards 0 and 5; the 0/1
\* knapsack with weights 3, 4, 5, values 4, 5, 6 and capacity 8.
Trivial == [n |-> 1, val |-> <<5>>, wt |-> <<1>>, cap |-> 1]
Knapsack == [n |-> 3, val |-> <<4, 5, 6>>, wt |-> <<3, 4, 5>>, cap |-> 8]
Examples == {Trivial, Knapsack}

InitExamples ==
  /\ pb \in Problems \cup Examples
  /\ bo \in Comparators
  /\ pc = "start"
  /\ fringe = {}
  /\ node = {}
  /\ explored = 0
  /\ best_ub = I32_MAX
  /\ best_lb = I32_MIN
  /\ best_node = {}
  /\ best_sol = {}
  /\ mdd = NoMdd
  /\ result = <<>>
  /\ nodes = <<>>
  /\ merged = {}

SpecExamples == InitExamples /\ [][Next]_vars

\* The driver is given best_lb = optimum of a feasible problem before
\* maximize() is called (best_lb is a public field).
InitSeeded ==
  /\ pb \in {p \in Problems : Completions(p, <<>>) # {}}
  /\ bo \in Comparators
  /\ pc = "start"
  /\ fringe = {}
  /\ node = {}
  /\ explored = 0
  /\ best_ub = I32_MAX
  /\ best_lb = Opt(pb, <<>>)
  /\ best_node = {}
  /\ best_sol = {}
  /\ mdd = NoMdd
  /\ result = <<>>
  /\ nodes = <<>>
  /\ merged = {}

SpecSeeded == InitSeeded /\ [][Next]_vars

\* McpRelax::merge_nodes applied to a list of nodes
InitMerge ==
  /\ pb \in {CHOOSE p \in Problems : TRUE}
  /\ bo = "MaxUb"
  /\ pc = "idle"
  /\ fringe = {}
  /\ node = {}
  /\ explored = 0
  /\ best_ub = I32_MAX
  /\ best_lb = I32_MIN
  /\ best_node = {}
  /\ best_sol = {}
  /\ mdd = NoMdd
  /\ result = <<>>
  /\ \E k \in 1..MaxNodes : \E f \in [1..k -> McpNodeChoices] :
       nodes = McpInput(f)
  /\ merged = {}

MergeNodes ==
  /\ pc = "idle"
  /\ merged = {}
  /\ merged' = {merge_nodes(nodes)}
  /\ UNCHANGED <<pb, bo, pc, fringe, node, explored, best_ub, best_lb,
                 best_node, best_sol, mdd, result, nodes>>

NextMerge == MergeNodes
SpecMerge == InitMerge /\ [][NextMerge]_vars

\* ------------------------------------------------------------------------
\* Properties
\* ------------------------------------------------------------------------

\* C1 (as claimed): whatever the comparator of the fringe, the value
\* maximize() returns is the optimum of the problem.
C1_ReturnsOptimum == pc = "done" => result[1] = Optimum

\* C1 (amended): when the fringe pops a node of greatest ub first, the
\* value maximize() returns is the optimum of the problem.
C1_ReturnsOptimumMaxUb == (pc = "done" /\ bo = "MaxUb") => result[1] = Optimum

\* the root was split by a non-exact relaxation and the cutset subproblems
\* led to the optimum
C1_Witness ==
  /\ pc = "done" /\ bo = "MaxUb" /\ explored >= 2
  /\ Optimum > I32_MIN /\ result[1] = Optimum

\* C2: best_lb <= optimum <= best_ub in every reachable state.
C2_BoundValidity == best_lb <= Optimum /\ Optimum <= best_ub

\* C3: best_lb starts at i32::MIN and every assignment to it (made together
\* with best_node) strictly increases it; best_ub starts at i32::MAX and
\* never increases.
C3_MonotoneBounds ==
  /\ best_lb = I32_MIN /\ best_ub = I32_MAX
  /\ [][/\ best_lb' >= best_lb
        /\ best_ub' <= best_ub
        /\ (<<best_lb, best_node>>' # <<best_lb, best_node>>
              => best_lb' > best_lb)]_vars

\* best_lb was raised by a restricted diagram and again by an exact relaxed
\* one, best_ub was lowered
C3_Witness ==
  /\ pc = "loop" /\ explored >= 2
  /\ best_lb > I32_MIN /\ best_ub < I32_MAX
  /\ mdd.kind = "relaxed" /\ mdd.is_exact /\ mdd.best_node = best_node

\* C4: best_lb and best_node are assigned together from the diagram just
\* compiled, which is restricted or relaxed and exact; best_lb is always
\* the value of the feasible decision sequence held by best_node.
C4_FeasibleLb ==
  /\ [](/\ (best_node = {}) <=> (best_lb = I32_MIN)
        /\ \A bn \in best_node :
             /\ bn.lp_len = best_lb
             /\ bn.path \in Completions(pb, <<>>)
             /\ Value(pb, bn.path) = best_lb)
  /\ [][<<best_lb, best_node>>' # <<best_lb, best_node>>
          => /\ best_lb' = mdd'.best_value
             /\ best_node' = mdd'.best_node
             /\ \/ mdd'.kind = "restricted"
                \/ mdd'.kind = "relaxed" /\ mdd'.is_exact]_vars

\* a non-exact relaxed diagram reported more than best_lb and was not used
C4_Witness ==
  /\ pc = "loop" /\ mdd.kind = "relaxed" /\ ~mdd.is_exact
  /\ mdd.best_value > best_lb /\ best_node # {}

\* C5: a pop after which best_lb >= best_ub ends the loop at once, nothing
\* is compiled or counted afterwards, and the loop is left only with an
\* empty fringe or with best_lb >= best_ub.
C5_StopsWhenProved ==
  /\ [](pc \in {"finish", "done"} => (fringe = {} \/ best_lb >= best_ub))
  /\ [][/\ (pc = "loop" /\ fringe # {} /\ best_lb >= best_ub')
             => /\ pc' = "finish"
                /\ <<explored, best_lb, best_node, mdd>>'
                     = <<explored, best_lb, best_node, mdd>>
        /\ pc \in {"finish", "done"}
             => /\ pc' \in {"finish", "done"}
                /\ <<explored, best_lb, best_node, mdd, fringe>>'
                     = <<explored, best_lb, best_node, mdd, fringe>>]_vars

\* the loop was left by the optimality test with nodes still in the fringe
C5_Witness == pc = "done" /\ fringe # {} /\ best_lb >= best_ub /\ explored >= 2

\* C6: a popped node with ub <= best_lb is not explored: nothing is
\* compiled from it, explored is not incremented, nothing is pushed.
C6_NoExploreBelowLb ==
  /\ [](pc \in {"restrict"} => \A nd \in node : nd.ub > best_lb)
  /\ [][(pc = "loop" /\ fringe # {} /\ \E nd \in node' : nd.ub <= best_lb)
          => /\ pc' \notin {"restrict", "relax", "split"}
             /\ explored' = explored
             /\ mdd' = mdd
             /\ fringe' \subseteq fringe]_vars

\* a node whose ub equals best_lb was popped and left unexplored
C6_Witness ==
  /\ pc = "finish" /\ explored >= 1
  /\ \E nd \in node : nd.ub = best_lb

\* C7: the restriction phase updates best_lb and best_node iff the
\* restricted best_value is greater than best_lb, and after an exact
\* restricted diagram the node is finished: no relaxed diagram, no push.
C7_RestrictionPhase ==
  [][/\ pc = "restrict"
          => /\ mdd'.kind = "restricted"
             /\ IF mdd'.best_value > best_lb
                THEN best_lb' = mdd'.best_value /\ best_node' = mdd'.best_node
                ELSE best_lb' = best_lb /\ best_node' = best_node
             /\ mdd'.is_exact => (pc' = "loop" /\ fringe' = fringe)
     /\ (mdd' # mdd /\ mdd'.kind = "relaxed") => pc \in {"relax", "split"}
     /\ pc = "relax" => (mdd.kind = "restricted" /\ ~mdd.is_exact)
     /\ ~(fringe' \subseteq fringe) => pc \in {"start", "split"}]_vars

\* an exact restricted diagram improved best_lb below the root
C7_Witness ==
  /\ pc = "loop" /\ explored >= 2
  /\ mdd.kind = "restricted" /\ mdd.is_exact /\ mdd.best_value = best_lb
  /\ mdd.best_node = best_node

\* C8: the cutset of a non-exact relaxed diagram is pushed with ub capped
\* by best_ub, keeping the nodes whose capped ub is greater than best_lb;
\* an exact relaxed diagram pushes nothing.
C8_CutsetPush ==
  [][pc = "split"
       => IF mdd.is_exact
          THEN fringe' = fringe
          ELSE /\ mdd'.cutset = {}
               /\ \A c \in mdd.cutset :
                    LET u == IF c.ub < best_ub THEN c.ub ELSE best_ub IN
                    IF u > best_lb
                    THEN [state |-> c.state, lp_len |-> c.lp_len, ub |-> u]
                           \in fringe'
                    ELSE \A x \in fringe' \ fringe : x.state # c.state
               /\ \A x \in fringe' \ fringe :
                    \E c \in mdd.cutset :
                      /\ x.state = c.state /\ x.lp_len = c.lp_len
                      /\ x.ub = (IF c.ub < best_ub THEN c.ub ELSE best_ub)]_vars

\* a cutset was consumed: one of its nodes is in the fringe, another one
\* of the same layer was dropped
C8_Witness ==
  /\ pc = "loop" /\ mdd.kind = "relaxed" /\ ~mdd.is_exact
  /\ \E cur \in node : \E c \in fringe :
       /\ Len(c.state) > Len(cur.state)
       /\ c.state \in Ext(cur.state, Len(c.state))
       /\ \E s \in Ext(cur.state, Len(c.state)) :
            Feasible(pb, s) /\ \A x \in fringe : x.state # s

\* C9: maximize() returns (best_lb, best_sol); best_sol is the longest path
\* of best_node, or absent with best_lb = i32::MIN when nothing was found;
\* a returned solution has the value best_lb.
C9_Result ==
  pc = "done"
    => /\ result = <<best_lb, best_sol>>
       /\ best_node = {} => (best_sol = {} /\ best_lb = I32_MIN)
       /\ \A bn \in best_node :
            /\ best_sol = {bn.path}
            /\ bn.lp_len = best_lb
            /\ Value(pb, bn.path) = best_lb

C9_Witness ==
  /\ pc = "done" /\ explored >= 2
  /\ \E q \in result[2] : Value(pb, q) = result[1]

\* Work left: steps of the node being explored plus, for every node of the
\* fringe, a weight that exceeds the weights of any cutset below it.
NodeWork(nd) == 5 * 3 ^ (NVars - Len(nd.state))
RECURSIVE FringeWork(_)
FringeWork(f) ==
  IF f = {} THEN 0
  ELSE LET nd == CHOOSE x \in f : TRUE IN NodeWork(nd) + FringeWork(f \ {nd})
CurWork == IF node = {} THEN 0 ELSE NodeWork(CHOOSE nd \in node : TRUE)
Work ==
  FringeWork(fringe) +
    (CASE pc = "start" -> 5 * 3 ^ NVars + 3
       [] pc = "loop" -> 2
       [] pc = "restrict" -> CurWork + 1
       [] pc = "relax" -> CurWork
       [] pc = "split" -> CurWork - 1
       [] pc = "finish" -> 1
       [] OTHER -> 0)

\* the guard of the action at the current position holds
CanStep ==
  /\ pc = "start" => Roots(pb) # {}
  /\ (pc = "loop" /\ fringe # {}) => Top(bo, fringe) # {}
  /\ pc = "restrict" => \E nd \in node : Restricted(pb, nd, best_lb) # {}
  /\ pc = "relax" => \E nd \in node : Relaxed(pb, nd, best_lb) # {}

\* C10: maximize() terminates: every step of the driver decreases the work
\* left, which is never negative, and the driver can step until it returns.
C10_Terminates ==
  /\ [](Work >= 0 /\ (pc # "done" => CanStep))
  /\ [][Work' < Work]_vars

\* the driver returned after several pops
C10_Witness == pc = "done" /\ explored >= 3 /\ fringe = {}

\* C11: the node returned by merge_nodes has lp_len at least the lp_len of
\* every input node.
C11_MergedLpLenAtLeastInputs ==
  \A m \in merged : \A i \in 1..Len(nodes) : m.lp_len >= nodes[i].lp_len

\* C12: for every variable and input node the merged benefit is not larger
\* in absolute value than the input's, so every adjusted cost is at least
\* the input's lp_len.
C12_AdjustmentNonNegative ==
  \A m \in merged : \A j \in 1..Len(nodes) :
    /\ \A v \in 1..McpVars :
         Abs(m.state.benef[v]) <= Abs(nodes[j].state.benef[v])
    /\ RelaxedCosts(nodes, m.state)[j] >= nodes[j].lp_len

\* C13: the merged node takes lp_len from the greatest adjusted cost, lp_arc
\* and ub from the first input node that has this cost, and is not exact.
C13_Representative ==
  \A m \in merged :
    LET costs == RelaxedCosts(nodes, m.state)
        top == CHOOSE c \in {costs[j] : j \in 1..Len(nodes)} :
                 \A j \in 1..Len(nodes) : costs[j] <= c
        rep == CHOOSE j \in 1..Len(nodes) :
                 costs[j] = top /\ \A k \in 1..(j - 1) : costs[k] < top
    IN  /\ m.lp_len = top
        /\ m.lp_arc = nodes[rep].lp_arc
        /\ m.ub = nodes[rep].ub
        /\ m.is_exact = FALSE

\* two exact inputs of equal adjusted cost and different ub were merged
C13_Witness ==
  /\ merged # {} /\ Len(nodes) >= 2
  /\ \A m \in merged :
       /\ RelaxedCosts(nodes, m.state)[1] = RelaxedCosts(nodes, m.state)[2]
       /\ m.lp_len = RelaxedCosts(nodes, m.state)[1]
       /\ m.lp_arc = 1
  /\ nodes[1].ub # nodes[2].ub
  /\ nodes[1].is_exact /\ nodes[2].is_exact

\* C14: merging nodes that satisfy lp_len <= ub gives a node that satisfies
\* it, and every node of the fringe satisfies it.
C14_LpLenAtMostUb ==
  /\ \A m \in merged :
       (\A i \in 1..Len(nodes) : nodes[i].lp_len <= nodes[i].ub)
         => m.lp_len <= m.ub
  /\ \A nd \in fringe : nd.lp_len <= nd.ub

\* the lists obtained by reordering ns
Reorderings(ns) ==
  {[i \in 1..Len(ns) |-> ns[p[i]]] :
     p \in {q \in [1..Len(ns) -> 1..Len(ns)] :
              \A a, b \in 1..Len(ns) : a # b => q[a] # q[b]}}

\* C18: per variable the merged benefit is the minimum when the inputs are
\* >= 0 with one positive, minus the minimum absolute value when they are
\* <= 0 with one negative, 0 otherwise, whatever the order of the inputs.
C18_MergedState ==
  \A m \in merged :
    /\ \A v \in 1..McpVars :
         LET B == {nodes[i].state.benef[v] : i \in 1..Len(nodes)} IN
         m.state.benef[v] =
           (IF (\A b \in B : b >= 0) /\ (\E b \in B : b > 0)
            THEN CHOOSE x \in B : \A y \in B : x <= y
            ELSE IF (\A b \in B : b <= 0) /\ (\E b \in B : b < 0)
            THEN -(CHOOSE x \in {Abs(b) : b \in B} :
                     \A y \in {Abs(b) : b \in B} : x <= y)
            ELSE 0)
    /\ \A r \in Reorderings(nodes) : merge_states(r) = m.state

\* the root was explored and its restricted diagram is exact
RootSolvedByRestriction ==
  /\ node # {} /\ \A nd \in node : nd.state = <<>>
  /\ mdd.kind = "restricted" /\ mdd.is_exact
  /\ pc \in {"loop", "finish", "done"}

\* C15: when the restricted diagram of the root is exact, one node is
\* explored, no relaxed diagram is compiled, nothing is pushed and the
\* result is the value and longest path of that diagram (5 and v0 := 1 for
\* one variable with rewards 0 and 5).
C15_RootSolvedByRestriction ==
  /\ [](RootSolvedByRestriction
          => /\ explored = 1
             /\ fringe = {}
             /\ pc = "done"
                  => /\ result = <<mdd.best_value,
                                   {LongestPath(bn) : bn \in mdd.best_node}>>
                     /\ pb = Trivial => result = <<5, {<<1>>}>>)
  /\ [][(pc = "restrict" /\ explored = 1 /\ mdd'.is_exact)
          => (pc' = "loop" /\ fringe' = {} /\ mdd'.kind = "restricted")]_vars

C15_Witness ==
  /\ RootSolvedByRestriction /\ pc = "done" /\ pb = Trivial
  /\ explored = 1 /\ result = <<5, {<<1>>}>>

\* C16 (as claimed): with best_lb seeded to the optimum the loop stops on
\* the first pop, nothing is ever compiled.
C16_SeedStopsOnFirstPop ==
  pc \notin {"restrict", "relax", "split"} /\ explored = 0 /\ mdd = NoMdd

\* C16 (amended): with best_lb seeded to the optimum and a root whose ub is
\* not above it, the loop stops on the first pop, nothing is ever compiled.
C16_SeedStopsOnTightRoot ==
  (node # {} /\ \A nd \in node : nd.state = <<>> /\ nd.ub <= Optimum)
    => /\ pc \in {"finish", "done"}
       /\ explored = 0
       /\ mdd = NoMdd
       /\ best_lb = Optimum

C16_Witness ==
  /\ pc = "done" /\ explored = 0 /\ mdd = NoMdd
  /\ Optimum > I32_MIN /\ result[1] = Optimum
  /\ \E nd \in node : nd.state = <<>> /\ nd.ub = Optimum

\* the loop was left with an empty fringe or with best_lb >= best_ub
ProvedOptimum == fringe = {} \/ best_lb >= best_ub

\* C17 (as claimed): on the knapsack instance maximize() returns 11,
\* proved optimal.
C17_KnapsackReturns11 ==
  (pb = Knapsack /\ pc = "done") => (result[1] = 11 /\ ProvedOptimum)

\* C17 (amended): on the knapsack instance, with the fringe ordered by ub
\* first, maximize() returns 10, proved optimal.
C17_KnapsackReturns10 ==
  (pb = Knapsack /\ bo = "MaxUb" /\ pc = "done")
    => (result[1] = 10 /\ ProvedOptimum)

\* items 0 and 2 were returned after a split of the root
C17_Witness ==
  /\ pb = Knapsack /\ bo = "MaxUb" /\ pc = "done" /\ explored >= 2
  /\ result = <<10, {<<1, 0, 1>>}>>

\* every node of the fringe has ub <= best_ub; a pop leaves best_ub equal
\* to the ub of the popped node, not above the ub of the node popped before
FringeBelowBestUb ==
  /\ [](\A nd \in fringe : nd.ub <= best_ub)
  /\ [][(pc = "loop" /\ fringe # {})
          => \A nd \in node' :
               /\ best_ub' = nd.ub
               /\ \A prev \in node : nd.ub <= prev.ub]_vars

\* C19 (as claimed): whatever the comparator, the nodes of the fringe have
\* ub <= best_ub, best_ub is the ub of the node just popped and the popped
\* ubs never increase.
C19_FringeBelowBestUb == FringeBelowBestUb

\* C19 (amended): the same when the comparator pops a greatest ub first.
C19_FringeBelowBestUbMaxUb ==
  /\ [](bo = "MaxUb" => \A nd \in fringe : nd.ub <= best_ub)
  /\ [][(bo = "MaxUb" /\ pc = "loop" /\ fringe # {})
          => \A nd \in node' :
               /\ best_ub' = nd.ub
               /\ \A prev \in node : nd.ub <= prev.ub]_vars

\* a later node was popped with a smaller ub, nodes remain in the fringe
C19_Witness ==
  /\ bo = "MaxUb" /\ pc = "restrict" /\ explored >= 2 /\ fringe # {}
  /\ \A nd \in node : best_ub = nd.ub /\ nd.ub < I32_MAX
  /\ \E nd \in fringe : nd.ub < best_ub

\* C20: the skip branch is never taken: a popped node with ub < best_lb
\* has lowered best_ub to at most its ub and the loop breaks, leaving the
\* other nodes in the fringe.
C20_SkipNeverTaken ==
  [][(pc = "loop" /\ fringe # {})
       => /\ pc' # "loop"
          /\ \A nd \in node' :
               nd.ub < best_lb
                 => /\ best_ub' <= nd.ub
                    /\ pc' = "finish"
                    /\ fringe' = fringe \ {nd}]_vars

\* the loop broke on a node with ub < best_lb while nodes were left
C20_Witness ==
  /\ pc = "finish" /\ fringe # {}
  /\ \E nd \in node : nd.ub < best_lb
====
